---- MODULE Spec2Model ----
(***************************************************************************)
(* Model of the snippet-aware workspace-edit applier of coc-rust-analyzer  *)
(* (src/src/commands.ts): parseSnippet, countLines and the async function  *)
(* applySnippetWorkspaceEdit with its command wrapper.                     *)
(*                                                                         *)
(* A text is a sequence of one-character strings.  The document store      *)
(* (coc.nvim's `workspace`) is external; it is modelled by the log of the  *)
(* calls made to it, each with its completion status, and by the uri of    *)
(* the active document.                                                    *)
(***************************************************************************)
EXTENDS Integers, Sequences, FiniteSets

VARIABLES
    shape,      \* shape of the incoming WorkspaceEdit (see Shapes)
    edits,      \* change.edits of documentChanges[0], when it is a TextDocumentEdit
    editUri,    \* change.textDocument.uri
    activeUri,  \* uri of the document store's active document
    pc,         \* position of the async function
    i,          \* 1-based index of the indel the for-loop is at
    selection,  \* local `selection` (line 273)
    lineDelta,  \* local `lineDelta` (line 274)
    parsed,     \* local `parsed` (line 279) of the indel last processed
    current,    \* local `current` (line 301): uri read from workspace.document
    calls,      \* log of the calls issued to the document store
    result      \* promise of the command: "pending", "fulfilled" or the error it rejected with

vars == <<shape, edits, editUri, activeUri, pc, i, selection, lineDelta, parsed, current, calls, result>>

-----------------------------------------------------------------------------
(* Bounds *)

MaxEdits == 3

MaxTokens == 4

-----------------------------------------------------------------------------
(* Strings *)

Take(s, n) == SubSeq(s, 1, n)

Drop(s, n) == SubSeq(s, n + 1, Len(s))

\* String.prototype.indexOf(pat): zero-based index of the first occurrence, -1 if none
IndexOf(s, pat) ==
    LET hits == {k \in 0..(Len(s) - Len(pat)) : SubSeq(s, k + 1, k + Len(pat)) = pat}
    IN IF hits = {} THEN -1 ELSE CHOOSE k \in hits : \A h \in hits : k <= h

\* String.prototype.lastIndexOf(ch) for a one-character ch
lastIndexOf(s, ch) ==
    LET hits == {k \in 0..(Len(s) - 1) : s[k + 1] = ch}
    IN IF hits = {} THEN -1 ELSE CHOOSE k \in hits : \A h \in hits : k >= h

\* the regular expression /\$(0|\{0:([^}]*)\})/ anchored at zero-based index k:
\* the zero-based index one past the match, or -1 when it does not match there
MatchEndAt(s, k) ==
    IF k + 2 > Len(s) \/ s[k + 1] # "$" THEN -1
    ELSE IF s[k + 2] = "0" THEN k + 2
    ELSE IF k + 4 <= Len(s) /\ s[k + 2] = "{" /\ s[k + 3] = "0" /\ s[k + 4] = ":"
         THEN LET closes == {j \in (k + 4)..(Len(s) - 1) : s[j + 1] = "}"}
              IN IF closes = {} THEN -1
                 ELSE (CHOOSE j \in closes : \A h \in closes : j <= h) + 1
    ELSE -1

\* snip.match(re): leftmost match; m.index, m[0] and m[2] (hasDefault = FALSE: m[2] undefined)
RegexMatch(snip) ==
    LET starts == {k \in 0..(Len(snip) - 1) : MatchEndAt(snip, k) # -1}
    IN IF starts = {}
       THEN [found |-> FALSE, index |-> 0, m0 |-> <<>>, hasDefault |-> FALSE, m2 |-> <<>>]
       ELSE LET k == CHOOSE x \in starts : \A h \in starts : x <= h
                e == MatchEndAt(snip, k)
                bounded == e - k > 2
            IN [found |-> TRUE, index |-> k, m0 |-> SubSeq(snip, k + 1, e),
                hasDefault |-> bounded,
                m2 |-> IF bounded THEN SubSeq(snip, k + 5, e - 1) ELSE <<>>]

\* the grave accent and the apostrophe, which a TLA+ string cannot hold
Grave == "<grave>"

Apostrophe == "<apostrophe>"

\* GetSubstitution of String.prototype.replace for a string pattern (no captures):
\* $$ -> $, $& -> the matched text, $<grave> -> the text before it,
\* $<apostrophe> -> the text after it
RECURSIVE GetSubstitution(_, _, _, _)
GetSubstitution(matched, str, position, replacement) ==
    IF replacement = <<>> THEN <<>>
    ELSE IF replacement[1] = "$" /\ Len(replacement) >= 2
    THEN LET c == replacement[2]
             rest == GetSubstitution(matched, str, position, Drop(replacement, 2))
         IN IF c = "$" THEN <<"$">> \o rest
            ELSE IF c = "&" THEN matched \o rest
            ELSE IF c = Grave THEN Take(str, position) \o rest
            ELSE IF c = Apostrophe THEN Drop(str, position + Len(matched)) \o rest
            ELSE <<"$">> \o GetSubstitution(matched, str, position, Drop(replacement, 1))
    ELSE <<replacement[1]>> \o GetSubstitution(matched, str, position, Drop(replacement, 1))

\* str.replace(pat, replacement) with a string pattern: first occurrence only
StringReplace(str, pat, replacement) ==
    LET pos == IndexOf(str, pat)
    IN IF pos = -1 THEN str
       ELSE Take(str, pos) \o GetSubstitution(pat, str, pos, replacement)
                \o Drop(str, pos + Len(pat))

NoParse == [found |-> FALSE, text |-> <<>>, start |-> 0, len |-> 0]

parseSnippet(snip) ==
    LET m == RegexMatch(snip)
    IN IF ~m.found THEN NoParse
       ELSE LET placeholder == IF m.hasDefault THEN m.m2 ELSE <<>>
            IN [found |-> TRUE,
                text |-> StringReplace(snip, m.m0, placeholder),
                start |-> m.index,
                len |-> Len(placeholder)]

countLines(text) == Cardinality({k \in 1..Len(text) : text[k] = "\n"})

-----------------------------------------------------------------------------
(* Ranges, edits and inputs *)

Position(l, c) == [line |-> l, character |-> c]

RangeCreate(sl, sc, el, ec) == [start |-> Position(sl, sc), end |-> Position(el, ec)]

TextEditReplace(range, newText) == [range |-> range, newText |-> newText]

NoSelection == [defined |-> FALSE, range |-> RangeCreate(0, 0, 0, 0)]

Shapes == {"absent", "empty", "other", "grouped"}

Uris == {"file:///a.rs", "file:///b.rs"}

Errors == {"ErrA", "ErrB"}

\* an insertion at line 2, column 4, and a replacement of the whole of line 0
Ranges == {RangeCreate(2, 4, 2, 4), RangeCreate(0, 0, 1, 0)}

Texts ==
    { <<"a">>,
      <<"\n", "\n">>,
      <<"$", "0">>,
      <<"$", "{", "0", ":", "f", "o", "o", "}">>,
      <<"\n", "a", "$", "0">> }

Indels == {TextEditReplace(r, t) : r \in Ranges, t \in Texts}

RECURSIVE Groups(_)
Groups(n) ==
    IF n = 0 THEN {<<>>}
    ELSE LET G == Groups(n - 1) IN G \cup {Append(g, e) : g \in {h \in G : Len(h) = n - 1}, e \in Indels}

Tokens ==
    { <<"$">>, <<"0">>, <<"a">>, <<"\n">>, <<"&">>, <<Grave>>, <<Apostrophe>>, <<"}">>,
      <<"$", "{", "0", ":">> }

RECURSIVE TokenStrings(_)
TokenStrings(n) ==
    IF n = 0 THEN {<<>>}
    ELSE LET S == TokenStrings(n - 1) IN S \cup {s \o t : s \in S, t \in Tokens}

-----------------------------------------------------------------------------
(* The store calls *)

Call(op, es, uri, range) == [op |-> op, edits |-> es, uri |-> uri, range |-> range, status |-> "pending"]

Issue(c) == Append(calls, c)

\* the last call of the log completes with status st
Complete(st) == [calls EXCEPT ![Len(calls)].status = st]

Called(op) == \E k \in 1..Len(calls) : calls[k].op = op

Pending == {k \in 1..Len(calls) : calls[k].status = "pending"}

-----------------------------------------------------------------------------
(* applySnippetWorkspaceEdit *)

\* SelectionFor with the column taken from the replacement text alone
SelectionFor_IgnoresStartCharacter(indel, delta, p) ==
    LET prefix == Take(p.text, p.start)
        lastNewline == lastIndexOf(prefix, "\n")
        startLine == indel.range.start.line + delta + countLines(prefix)
        startColumn == Len(prefix) - lastNewline - 1
        endColumn == startColumn + p.len
    IN [defined |-> TRUE, range |-> RangeCreate(startLine, startColumn, startLine, endColumn)]

\* lines 281-288: the Selection of an indel whose text holds a marker
SelectionFor(indel, delta, p) ==
    LET prefix == Take(p.text, p.start)
        lastNewline == lastIndexOf(prefix, "\n")
        startLine == indel.range.start.line + delta + countLines(prefix)
        startColumn == IF lastNewline = -1
                       THEN indel.range.start.character + p.start
                       ELSE Len(prefix) - lastNewline - 1
        endColumn == startColumn + p.len
    IN [defined |-> TRUE, range |-> RangeCreate(startLine, startColumn, startLine, endColumn)]

\* line 293
LineDeltaFor(indel) ==
    countLines(indel.newText) - (indel.range.end.line - indel.range.start.line)

Init ==
    /\ shape \in Shapes
    /\ edits \in (IF shape = "grouped" THEN Groups(MaxEdits) ELSE {<<>>})
    /\ editUri = "file:///a.rs"
    /\ activeUri \in Uris
    /\ pc = "start"
    /\ i = 1
    /\ selection = NoSelection
    /\ lineDelta = 0
    /\ parsed = NoParse
    /\ current = "unread"
    /\ calls = <<>>
    /\ result = "pending"

InitParse ==
    /\ shape = "grouped"
    /\ edits \in {<<TextEditReplace(RangeCreate(2, 4, 2, 4), t)>> : t \in TokenStrings(MaxTokens)}
    /\ editUri = "file:///a.rs"
    /\ activeUri \in Uris
    /\ pc = "start"
    /\ i = 1
    /\ selection = NoSelection
    /\ lineDelta = 0
    /\ parsed = NoParse
    /\ current = "unread"
    /\ calls = <<>>
    /\ result = "pending"

\* Start without the test of line 269: documentChanges[0] of an absent list throws
Start_NoLengthTest ==
    /\ pc = "start"
    /\ IF shape = "grouped"
       THEN /\ pc' = "loop"
            /\ result' = result
       ELSE IF shape = "absent"
       THEN /\ pc' = "threw"
            /\ result' = "TypeError"
       ELSE /\ pc' = "done"
            /\ result' = "fulfilled"
    /\ i' = 1
    /\ selection' = NoSelection
    /\ lineDelta' = 0
    /\ UNCHANGED <<shape, edits, editUri, activeUri, parsed, current, calls>>

\* lines 269-276: the shape tests and the locals
Start ==
    /\ pc = "start"
    /\ IF shape = "grouped"
       THEN /\ pc' = "loop"
            /\ result' = result
       ELSE /\ pc' = "done"
            /\ result' = "fulfilled"
    /\ i' = 1
    /\ selection' = NoSelection
    /\ lineDelta' = 0
    /\ UNCHANGED <<shape, edits, editUri, activeUri, parsed, current, calls>>

\* ProcessIndel without the await of line 297: the loop goes on with the call in flight
ProcessIndel_NotAwaited ==
    /\ pc = "loop"
    /\ i <= Len(edits)
    /\ LET indel == edits[i]
           p == parseSnippet(indel.newText)
       IN /\ parsed' = p
          /\ IF p.found
             THEN /\ selection' = SelectionFor(indel, lineDelta, p)
                  /\ lineDelta' = lineDelta
                  /\ calls' = Issue(Call("applyEdit", <<TextEditReplace(indel.range, p.text)>>,
                                         editUri, NoSelection.range))
             ELSE /\ selection' = selection
                  /\ lineDelta' = LineDeltaFor(indel)
                  /\ calls' = Issue(Call("applyEdit", edits, editUri, NoSelection.range))
    /\ i' = i + 1
    /\ UNCHANGED <<shape, edits, editUri, activeUri, pc, current, result>>

\* lines 277-297: one iteration of the loop, up to the issue of workspace.applyEdit
ProcessIndel ==
    /\ pc = "loop"
    /\ i <= Len(edits)
    /\ LET indel == edits[i]
           p == parseSnippet(indel.newText)
       IN /\ parsed' = p
          /\ IF p.found
             THEN /\ selection' = SelectionFor(indel, lineDelta, p)
                  /\ lineDelta' = lineDelta
                  /\ calls' = Issue(Call("applyEdit", <<TextEditReplace(indel.range, p.text)>>,
                                         editUri, NoSelection.range))
             ELSE /\ selection' = selection
                  /\ lineDelta' = LineDeltaFor(indel)
                  /\ calls' = Issue(Call("applyEdit", edits, editUri, NoSelection.range))
    /\ pc' = "applying"
    /\ UNCHANGED <<shape, edits, editUri, activeUri, i, current, result>>

\* line 297: the awaited applyEdit resolves, the loop goes on
ApplyResolves ==
    /\ pc = "applying"
    /\ calls' = Complete("ok")
    /\ i' = i + 1
    /\ pc' = "loop"
    /\ UNCHANGED <<shape, edits, editUri, activeUri, selection, lineDelta, parsed, current, result>>

\* ApplyRejects with the rejection caught and the loop going on
ApplyRejects_Swallowed ==
    /\ pc = "applying"
    /\ \E err \in Errors : calls' = Complete(err)
    /\ i' = i + 1
    /\ pc' = "loop"
    /\ UNCHANGED <<shape, edits, editUri, activeUri, selection, lineDelta, parsed, current, result>>

\* line 297 and lines 313-317: the awaited applyEdit rejects; nothing catches it
ApplyRejects ==
    /\ pc = "applying"
    /\ \E err \in Errors :
          /\ calls' = Complete(err)
          /\ result' = err
    /\ pc' = "threw"
    /\ UNCHANGED <<shape, edits, editUri, activeUri, i, selection, lineDelta, parsed, current>>

\* lines 300-308: after the loop, up to the issue of loadFile or selectRange
AfterLoop ==
    /\ pc = "loop"
    /\ i > Len(edits)
    /\ IF selection.defined
       THEN /\ current' = activeUri
            /\ IF activeUri # editUri
               THEN /\ calls' = Issue(Call("loadFile", <<>>, editUri, NoSelection.range))
                    /\ pc' = "loading"
               ELSE /\ calls' = Issue(Call("selectRange", <<>>, editUri, selection.range))
                    /\ pc' = "selecting"
            /\ result' = result
       ELSE /\ pc' = "done"
            /\ result' = "fulfilled"
            /\ UNCHANGED <<current, calls>>
    /\ UNCHANGED <<shape, edits, editUri, activeUri, i, selection, lineDelta, parsed>>

\* lines 303-304: loadFile resolves, jumpTo is issued
LoadFileDone ==
    /\ pc = "loading"
    /\ calls' = Append(Complete("ok"), Call("jumpTo", <<>>, editUri, NoSelection.range))
    /\ pc' = "jumping"
    /\ UNCHANGED <<shape, edits, editUri, activeUri, i, selection, lineDelta, parsed, current, result>>

\* JumpToDone without the return of line 306: the selection is placed after the switch
JumpToDone_ThenSelects ==
    /\ pc = "jumping"
    /\ calls' = Append(Complete("ok"), Call("selectRange", <<>>, editUri, selection.range))
    /\ activeUri' = editUri
    /\ pc' = "selecting"
    /\ UNCHANGED <<shape, edits, editUri, i, selection, lineDelta, parsed, current, result>>

\* lines 304-306: jumpTo resolves and the function returns
JumpToDone ==
    /\ pc = "jumping"
    /\ calls' = Complete("ok")
    /\ activeUri' = editUri
    /\ pc' = "done"
    /\ result' = "fulfilled"
    /\ UNCHANGED <<shape, edits, editUri, i, selection, lineDelta, parsed, current>>

\* lines 308-310: selectRange resolves and the function returns
SelectRangeDone ==
    /\ pc = "selecting"
    /\ calls' = Complete("ok")
    /\ pc' = "done"
    /\ result' = "fulfilled"
    /\ UNCHANGED <<shape, edits, editUri, activeUri, i, selection, lineDelta, parsed, current>>

Next ==
    \/ Start
    \/ ProcessIndel
    \/ ApplyResolves
    \/ ApplyRejects
    \/ AfterLoop
    \/ LoadFileDone
    \/ JumpToDone
    \/ SelectRangeDone

Spec == Init /\ [][Next]_vars

SpecParse == InitParse /\ [][Next]_vars

-----------------------------------------------------------------------------
(* The properties *)

HasMarker(text) == RegexMatch(text).found

\* zero-based offset of the first marker of a text, and its default text
MarkerOffset(text) == RegexMatch(text).index

DefaultText(text) == RegexMatch(text).m2

\* the text with its first marker replaced by the marker's default text
WithDefault(text) ==
    LET m == RegexMatch(text)
    IN Take(text, m.index) \o m.m2 \o Drop(text, m.index + Len(m.m0))

Grouped == shape = "grouped"

MarkerIndices == {k \in 1..Len(edits) : HasMarker(edits[k].newText)}

AnyMarker == MarkerIndices # {}

\* net line-count drift of the first n Edits of the group
RECURSIVE SumDrift(_)
SumDrift(n) ==
    IF n = 0 THEN 0
    ELSE SumDrift(n - 1) + countLines(edits[n].newText)
            - (edits[n].range.end.line - edits[n].range.start.line)

\* the Edits of the apply calls 1..n, one after another
RECURSIVE AppliedEdits(_)
AppliedEdits(n) ==
    IF n = 0 THEN <<>>
    ELSE AppliedEdits(n - 1) \o (IF calls[n].op = "applyEdit" THEN calls[n].edits ELSE <<>>)

\* number of characters after the last line break of a text
RECURSIVE TailLength(_)
TailLength(text) ==
    IF text = <<>> \/ text[Len(text)] = "\n" THEN 0
    ELSE 1 + TailLength(Take(text, Len(text) - 1))

\* the active document differed from the edited one when the edits had been applied
Differed == IF current # "unread" THEN current # editUri ELSE activeUri # editUri

SelectCalls == {k \in 1..Len(calls) : calls[k].op = "selectRange"}

\* C1: once a marker-bearing Edit has set the Selection, no later Edit of the
\* group changes it: the Selection is that of the first marker-bearing Edit.
C1_SelectionFixedByFirstMarker == [][selection.defined => selection' = selection]_vars

\* C2: the target line of the first marker-bearing Edit is its start line, plus
\* the line breaks of the replacement text before the marker, plus the sum of
\* the line-count drifts of all the Edits that precede it in the group.
C2_TargetLineAddsAllDrift ==
    (pc = "applying" /\ parsed.found /\ \A k \in MarkerIndices : i <= k)
        => selection.range.start.line =
              edits[i].range.start.line
              + countLines(Take(edits[i].newText, MarkerOffset(edits[i].newText)))
              + SumDrift(i - 1)

\* C3: a group without any marker makes no selection placement and no document
\* switch, and the apply calls carry every Edit verbatim exactly once, in group order.
C3_NoMarkerEachEditOnce ==
    (pc = "done" /\ Grouped /\ ~AnyMarker)
        => /\ ~Called("selectRange")
           /\ ~Called("loadFile")
           /\ ~Called("jumpTo")
           /\ AppliedEdits(Len(calls)) = edits

\* C4: no apply call carries a marker-bearing Edit of the group with its raw
\* marker text, and the apply call for a marker-bearing Edit carries only that
\* Edit, at its range, with the marker replaced by its default text.
C4_MarkerEditAppliedAlone ==
    \A k \in 1..Len(calls) :
        calls[k].op = "applyEdit"
            => /\ \A n \in 1..Len(calls[k].edits) :
                     \A j \in MarkerIndices : calls[k].edits[n] # edits[j]
               /\ k \in MarkerIndices
                     => calls[k].edits =
                           <<TextEditReplace(edits[k].range, WithDefault(edits[k].newText))>>

\* C5: the Selection of a marker-bearing Edit lies on one line and spans the
\* columns [c, c + length of the default text], where c is the Edit's start
\* column plus the marker's offset when no line break precedes the marker, and
\* the number of characters between the last line break and the marker otherwise.
C5_SelectionColumns ==
    (pc = "applying" /\ parsed.found)
        => LET indel == edits[i]
               off == MarkerOffset(indel.newText)
               before == Take(indel.newText, off)
               c == IF countLines(before) = 0
                    THEN indel.range.start.character + off
                    ELSE TailLength(before)
               r == selection.range
           IN /\ selection.defined
              /\ r.start.line = r.end.line
              /\ r.start.character = c
              /\ r.end.character = c + Len(DefaultText(indel.newText))

\* `${0:foo}` inserted at line 2, column 4 as the only Edit: columns [4, 7] on line 2
C5_Witness ==
    /\ pc = "applying"
    /\ Len(edits) = 1
    /\ edits[1] = TextEditReplace(RangeCreate(2, 4, 2, 4), <<"$", "{", "0", ":", "f", "o", "o", "}">>)
    /\ selection = [defined |-> TRUE, range |-> RangeCreate(2, 4, 2, 7)]
    /\ calls[1].edits[1].newText = <<"f", "o", "o">>

\* C6: parseSnippet returns "no marker" for a text without marker; otherwise the
\* text with the first marker replaced by exactly its default text, the offset
\* at which the default text starts and its length, the rest being unchanged.
C6_ParseSnippetReplacesMarker ==
    pc = "applying"
        => LET t == edits[i].newText
               off == MarkerOffset(t)
               d == DefaultText(t)
           IN IF ~HasMarker(t) THEN ~parsed.found
              ELSE /\ parsed.found
                   /\ parsed.text = WithDefault(t)
                   /\ parsed.start = off
                   /\ parsed.len = Len(d)
                   /\ SubSeq(parsed.text, off + 1, off + Len(d)) = d

C8_NotGroupedIsNoOp ==
    ~Grouped
        => /\ calls = <<>>
           /\ selection = NoSelection
           /\ pc \in {"start", "done"}
           /\ result = (IF pc = "done" THEN "fulfilled" ELSE "pending")

C8_Witness == pc = "done" /\ shape = "absent" /\ result = "fulfilled"

\* C9: a failed apply call is the last call made to the document store: it is
\* the apply of the Edit the loop is at, issued once after the successful
\* applies of the Edits before it, and the caller gets its error unmodified.
C9_ApplyFailurePropagates ==
    /\ \A k \in 1..Len(calls) :
          calls[k].status \in Errors
              => /\ k = Len(calls)
                 /\ k = i
                 /\ calls[k].op = "applyEdit"
                 /\ pc = "threw"
                 /\ result = calls[k].status
                 /\ \A j \in 1..(k - 1) : calls[j].op = "applyEdit" /\ calls[j].status = "ok"
    /\ pc = "threw" => calls # <<>> /\ calls[Len(calls)].status \in Errors

\* the second apply of a three-Edit group fails after a Selection was computed
C9_Witness ==
    /\ pc = "threw"
    /\ Len(edits) = 3
    /\ i = 2
    /\ selection.defined
    /\ result = "ErrB"

\* C10: at most one call to the document store is in flight, and it is the last
\* one issued; the k-th call is the apply for the k-th Edit; the selection
\* placement comes after all the applies have completed, and is made exactly
\* once when a Selection was computed and the active document is the edited one.
C10_StoreCallsSequential ==
    /\ Pending \subseteq {Len(calls)}
    /\ Pending # {} <=> pc \in {"applying", "loading", "jumping", "selecting"}
    /\ \A k \in 1..Len(calls) :
          calls[k].op = "applyEdit"
              => /\ k <= Len(edits)
                 /\ \A j \in 1..(k - 1) : calls[j].op = "applyEdit"
                 /\ IF k \in MarkerIndices
                    THEN calls[k].edits[1].range = edits[k].range
                    ELSE calls[k].edits = edits
    /\ \A k \in SelectCalls :
          /\ k = Len(calls)
          /\ k = Len(edits) + 1
          /\ calls[k].range = selection.range
          /\ \A j \in 1..(k - 1) : calls[j].op = "applyEdit" /\ calls[j].status = "ok"
    /\ (pc = "done" /\ Grouped /\ selection.defined /\ current = editUri)
          => Cardinality(SelectCalls) = 1 /\ calls[Len(calls)].status = "ok"

C10_Witness ==
    /\ pc = "done"
    /\ Len(edits) = 3
    /\ Cardinality(SelectCalls) = 1
    /\ Len(calls) = 4

====
